---- MODULE Spec2Model ----
(***************************************************************************)
(* Beanie Dash (js/game.js): the BeanieGame simulation as a state machine. *)
(*                                                                         *)
(* Numbers.  The code computes in floating point.  Here every length and   *)
(* velocity is an integer count of 1/10000 px (U units per pixel), which   *)
(* represents gravity 0.8, the speed ramp 0.0004 * deltaTime and the       *)
(* platform geometry exactly; distanceTraveled is an integer count of      *)
(* 1/1000000 m, so that speed * deltaTime * 0.01 is exactly                *)
(* speed * deltaTime, and distanceTraveled * 100 (pixels) is the same      *)
(* integer read as a length.                                               *)
(*                                                                         *)
(* Rendering state that no simulation step reads (rotation, trail,         *)
(* particles, screenShake, glowIntensity, colours) is left out.            *)
(***************************************************************************)
EXTENDS Integers, Sequences, TLC

\* ------------------------------------------------------------------ bounds

\* Frames explored in the first run after construction.
MaxFrames == 440
\* Frames explored in every later run.
MaxRetryFrames == 3
\* Runs (startGame calls) explored.
MaxRuns == 2
\* update() calls followed in a row while the state is not 'playing'.
MaxIdleFrames == 1
\* The frame of a run (counted from 0) whose deltaTime is drawn freely from
\* DeltaTimes; every other frame arrives at the regular FrameTime.
StallFrame == 0
\* Math.random() is modelled as a generator of period RandMod whose seed is
\* free: its values are the fractions 0/RandMod .. (RandMod-1)/RandMod.
RandMod == 6
\* distanceTraveled explored, in metres (keeps every product inside TLC's
\* 32-bit integers).
MaxMeters == 2100
\* Frames explored in a run when every frame draws its deltaTime freely.
MaxBurstFrames == 4
\* Last frame of a run at which the window is resized.
MaxResizeFrame == 3

\* ------------------------------------------------------- program constants

U == 10000
M6 == 1000000

FrameTime == 16
StallTime == 7200
LagTime == 3000
DeltaTimes == {FrameTime, LagTime, StallTime}

\* The size of the game container when the page is loaded.
CanvasWidth == 800
CanvasHeight == 400

gravity == (8 * U) \div 10
jumpPower == 0 - 14 * U
maxFallSpeed == 20 * U
maxSpeed == 12 * U
initialSpeed == (35 * U) \div 10
speedIncrement == 4
initialSpacing == 500 * U
minObstacleSpacing == 250 * U
spacingStep == 5 * U
firstObstacleX == 800 * U
levelEvery == 40
playerX == 100 * U
playerSize == 30 * U
removeX == 0 - 100 * U

NoPlatform == 0
Detached == 0 - 1
\* localStorage.getItem() of a key that was never set.
NoItem == 0 - 1
\* A best score left in localStorage by an earlier session.
PriorBest == 195

VARIABLES
    state,            \* 'menu' | 'playing' | 'gameover'
    score, deaths, bestScore,
    player,           \* [y, velocity, grounded, jumping, onPlatform]
    speed,
    obstacles,        \* the active obstacle array, in insertion order
    obstacleSpacing, lastObstacleX,
    difficultyLevel,
    distanceTraveled,
    startScreenHidden, gameOverHidden,   \* classList 'hidden' of the two overlays
    rng,              \* state of Math.random()
    nextId,           \* identity of the next obstacle object created in this run
    frame,            \* update() calls made in state 'playing' during this run
    idleFrames,       \* update() calls made since the state was last set
    runs,             \* startGame() calls so far
    stored,           \* localStorage item 'beanieHighScore', NoItem if absent
    looping,          \* gameLoop() has re-armed requestAnimationFrame
    worker,           \* the service worker: [phase, cache, online, response]
    music,            \* [enabled: musicEnabled, playing: bgMusic is not paused,
                      \*  playable: bgMusic.play() succeeds in this browser]
    canvas            \* [width, height] of the canvas element

vars == <<state, score, deaths, bestScore, player, speed, obstacles,
          obstacleSpacing, lastObstacleX, difficultyLevel, distanceTraveled,
          startScreenHidden, gameOverHidden, rng, nextId, frame, idleFrames, runs,
          stored, looping, worker, music, canvas>>

\* Everything a call of update() outside 'playing' leaves alone.
simulation == <<state, score, deaths, bestScore, player, speed, obstacles,
                obstacleSpacing, lastObstacleX, difficultyLevel, distanceTraveled,
                startScreenHidden, gameOverHidden, rng, nextId, frame, runs,
                stored, looping, worker, music, canvas>>

\* resizeCanvas() and init(): this.groundY = this.canvas.height - 100.
groundY == (canvas.height - 100) * U

Min(a, b) == IF a < b THEN a ELSE b
Max(a, b) == IF a > b THEN a ELSE b

\* ------------------------------------------------------------ Math.random

\* The fraction Math.random() returns is rng / RandMod; Scale(r, n) is
\* Math.floor(random * n) and Spread(r, len) is random * len.
Scale(r, n) == (r * n) \div RandMod
Spread(r, len) == (r * len) \div RandMod
NextRandom(r) == (r + 1) % RandMod

\* --------------------------------------------------------------- obstacles

\* An obstacle object.  isJumpable, collisionWidth and collisionOffset, which
\* the code reads on every obstacle, are FALSE and 0 where it leaves them
\* undefined (both read as falsy); moveY, moveDir and bounce exist only on the
\* types whose branch of updateObstacles reads them.
Obstacle(id, type, x, y, width, height) ==
    [id |-> id, type |-> type, x |-> x, y |-> y, width |-> width,
     height |-> height, passed |-> FALSE, isJumpable |-> FALSE,
     collisionWidth |-> 0, collisionOffset |-> 0]

\* The spike literal of generateSimpleSpike and of generateObstacle.
SimpleSpike(id, x) ==
    [Obstacle(id, "spike", x, groundY - 40 * U, 30 * U, 40 * U)
        EXCEPT !.collisionWidth = 20 * U, !.collisionOffset = 5 * U]

JumpPlatform(id, x, y, width) ==
    [Obstacle(id, "jump_platform", x, y, width, 15 * U) EXCEPT !.isJumpable = TRUE]

EasyPlatform(id, x) == JumpPlatform(id, x, groundY - 80 * U, 120 * U)

\* An opening sequence whose first obstacle sits at lastObstacleX itself.
generateInitialObstaclesAtFirst(first, spacing) ==
    << SimpleSpike(1, first),
       EasyPlatform(2, first + spacing),
       SimpleSpike(3, first + 2 * spacing),
       EasyPlatform(4, first + 3 * spacing) >>

\* generateInitialObstacles: spike, platform, spike, platform, each one
\* obstacleSpacing to the right of the one before.
generateInitialObstacles(first, spacing) ==
    << SimpleSpike(1, first + spacing),
       EasyPlatform(2, first + 2 * spacing),
       SimpleSpike(3, first + 3 * spacing),
       EasyPlatform(4, first + 4 * spacing) >>

\* A type list that holds every type from the start.
availableTypesAll(level) ==
    <<"spike", "jump_platform", "block", "platform", "saw", "poop">>

\* availableTypes of generateObstacle.
availableTypes(level) ==
    <<"spike", "jump_platform">>
      \o (IF level > 3 THEN <<"block">> ELSE <<>>)
      \o (IF level > 6 THEN <<"platform">> ELSE <<>>)
      \o (IF level > 8 THEN <<"saw">> ELSE <<>>)
      \o (IF level > 10 THEN <<"poop">> ELSE <<>>)

platformHeights == <<60 * U, 80 * U, 100 * U>>

\* Math.random() calls generateObstacle makes for an obstacle of this type,
\* the draw of the type included.
RandomCalls(type) ==
    CASE type = "jump_platform" -> 3
      [] type = "platform" -> 2
      [] OTHER -> 1

\* The type generateObstacle draws at this level from generator state r.
drawnType(level, r) ==
    availableTypes(level)[Scale(r, Len(availableTypes(level))) + 1]

\* generateObstacle(): the object pushed, given the generator state r at entry.
generateObstacle(id, level, lastX, spacing, r) ==
    LET type == drawnType(level, r)
        x == lastX + spacing
        r1 == NextRandom(r)
        r2 == NextRandom(r1)
    IN  CASE type = "spike" -> SimpleSpike(id, x)
          [] type = "jump_platform" ->
                JumpPlatform(id, x,
                             groundY - platformHeights[Scale(r1, 3) + 1],
                             IF level <= 2 THEN 100 * U + Spread(r2, 50 * U)
                                           ELSE 80 * U + Spread(r2, 40 * U))
          [] type = "block" ->
                Obstacle(id, type, x, groundY - 40 * U, 40 * U, 40 * U)
          [] type = "saw" ->
                Obstacle(id, type, x, groundY - 30 * U, 50 * U, 50 * U)
          [] type = "platform" ->
                LET y == groundY - 80 * U - Spread(r1, 60 * U)
                IN  [moveY |-> y, moveDir |-> 1]
                        @@ Obstacle(id, type, x, y, 60 * U, 10 * U)
          [] OTHER ->
                [bounce |-> 0]
                    @@ Obstacle(id, "poop", x, groundY - 35 * U, 35 * U, 35 * U)

RECURSIVE Advance(_, _)
Advance(r, n) == IF n = 0 THEN r ELSE Advance(NextRandom(r), n - 1)

\* ------------------------------------------------------------------ player

playerLeft == playerX - playerSize \div 2
playerRight == playerX + playerSize \div 2

\* Gravity and integration (the first two steps of updatePlayer).
applyGravity(p) ==
    LET v == IF p.grounded THEN p.velocity
             ELSE Min(p.velocity + gravity, maxFallSpeed)
    IN  [p EXCEPT !.velocity = v, !.y = p.y + v]

horizontallyAligned(o) ==
    /\ playerRight > o.x
    /\ playerLeft < o.x + o.width

\* A vertical test that takes only a bottom edge at most 5 px above the top.
verticallyAlignedAbove(p, o) ==
    LET playerBottom == p.y + playerSize
        platformTop == o.y
    IN  playerBottom >= platformTop - 5 * U /\ playerBottom <= platformTop

verticallyAligned(p, o) ==
    LET playerBottom == p.y + playerSize
        playerPrevBottom == p.y + playerSize - p.velocity
        platformTop == o.y
        platformBottom == o.y + o.height
    IN  \/ playerBottom >= platformTop - 5 * U /\ playerBottom <= platformBottom + 25 * U
        \/ playerPrevBottom <= platformTop /\ playerBottom >= platformTop


\* The platform loop of updatePlayer: the obstacle the player lands on.
canLandOn(p, o) ==
    /\ o.isJumpable
    /\ horizontallyAligned(o)
    /\ verticallyAligned(p, o)
    /\ p.velocity >= 0

\* Index of the first obstacle of the array the loop lands on, 0 for none.
landingIndex(p, obs) ==
    IF p.velocity >= 0 /\ \E i \in 1..Len(obs) : canLandOn(p, obs[i])
    THEN CHOOSE i \in 1..Len(obs) :
            /\ canLandOn(p, obs[i])
            /\ \A j \in 1..(i - 1) : ~canLandOn(p, obs[j])
    ELSE 0

\* The object player.onPlatform refers to.
platformOf(id, obs) == obs[CHOOSE i \in 1..Len(obs) : obs[i].id = id]

movedOff(platform, spd) ==
    LET platformLeft == platform.x - spd
        platformRight == platform.x + platform.width
    IN  playerRight < platformLeft \/ playerLeft > platformRight

\* updatePlayer whose platform landing leaves the player where it fell to.
updatePlayerNoSnap(p0, obs, spd) ==
    LET p == applyGravity(p0)
        i == landingIndex(p, obs)
    IN  IF i # 0
        THEN [p EXCEPT !.velocity = 0, !.grounded = TRUE, !.jumping = FALSE,
                       !.onPlatform = obs[i].id]
        ELSE IF p.y >= groundY - playerSize
        THEN [p EXCEPT !.y = groundY - playerSize, !.velocity = 0,
                       !.grounded = TRUE, !.jumping = FALSE,
                       !.onPlatform = NoPlatform]
        ELSE IF p.grounded /\ p.onPlatform # NoPlatform
                /\ movedOff(platformOf(p.onPlatform, obs), spd)
        THEN [p EXCEPT !.grounded = FALSE, !.onPlatform = NoPlatform]
        ELSE p

\* updatePlayer, without the rotation and the trail.
updatePlayer(p0, obs, spd) ==
    LET p == applyGravity(p0)
        i == landingIndex(p, obs)
    IN  IF i # 0
        THEN [p EXCEPT !.y = obs[i].y - playerSize, !.velocity = 0,
                       !.grounded = TRUE, !.jumping = FALSE,
                       !.onPlatform = obs[i].id]
        ELSE IF p.y >= groundY - playerSize
        THEN [p EXCEPT !.y = groundY - playerSize, !.velocity = 0,
                       !.grounded = TRUE, !.jumping = FALSE,
                       !.onPlatform = NoPlatform]
        ELSE IF p.grounded /\ p.onPlatform # NoPlatform
                /\ movedOff(platformOf(p.onPlatform, obs), spd)
        THEN [p EXCEPT !.grounded = FALSE, !.onPlatform = NoPlatform]
        ELSE p

\* --------------------------------------------------------- updateObstacles

\* 5 * Math.sin(0.1 * k) px for k = 1 .. 512, rounded to a unit.
SinTab ==
    << 4992, 9933, 14776, 19471, 23971, 28232, 32211, 35868,
       39166, 42074, 44560, 46602, 48178, 49272, 49875, 49979,
       49583, 48692, 47315, 45465, 43160, 40425, 37285, 33773,
       29924, 25775, 21369, 16749, 11962, 7056, 2079, -2919,
       -7887, -12777, -17539, -22126, -26492, -30593, -34388, -37840,
       -40914, -43579, -45808, -47580, -48877, -49685, -49996, -49808,
       -49123, -47946, -46291, -44173, -41613, -38638, -35277, -31563,
       -27534, -23230, -18694, -13971, -9108, -4154, 841, 5827,
       10756, 15577, 20242, 24706, 28922, 32849, 36448, 39683,
       42522, 44935, 46900, 48396, 49408, 49927, 49947, 49468,
       48494, 47037, 45109, 42730, 39924, 36720, 33148, 29246,
       25051, 20606, 15955, 11144, 6223, 1239, -3758, -8716,
       -13588, -18324, -22877, -27201, -31254, -34994, -38384, -41391,
       -43985, -46139, -47832, -49047, -49772, -50000, -49728, -48959,
       -47701, -45966, -43773, -41141, -38099, -34676, -30907, -26829,
       -22482, -17911, -13162, -8280, -3316, 1681, 6662, 11575,
       16374, 21008, 25433, 29604, 33478, 37019, 40189, 42958,
       45298, 47185, 48600, 49530, 49965, 49901, 49339, 48283,
       46745, 44740, 42287, 39413, 36144, 32514, 28560, 24320,
       19837, 15156, 10323, 5388, 398, -4595, -9543, -14395,
       -19104, -23621, -27903, -31905, -35589, -38918, -41857, -44378,
       -46456, -48070, -49203, -49845, -49989, -49633, -48781, -47442,
       -45629, -43360, -40658, -37549, -34066, -30242, -26115, -21728,
       -17124, -12349, -7450, -2477, 2521, 7494, 12392, 17166,
       21768, 26153, 30277, 34098, 37579, 40684, 43382, 45647,
       47456, 48791, 49638, 49990, 49841, 49195, 48058, 46440,
       44358, 41833, 38890, 35558, 31871, 27866, 23582, 19063,
       14353, 9499, 4551, -443, -5432, -10367, -15198, -19878,
       -24359, -28596, -32548, -36175, -39440, -42311, -44759, -46760,
       -48294, -49346, -49904, -49964, -49524, -48590, -47170, -45279,
       -42935, -40163, -36989, -33445, -29568, -25395, -20968, -16332,
       -11532, -6618, -1637, 3360, 8324, 13204, 17953, 22522,
       26866, 30942, 34708, 38128, 41167, 43794, 45984, 47714,
       48968, 49732, 50000, 49768, 49038, 47819, 46122, 43964,
       41366, 38356, 34962, 31219, 27164, 22837, 18283, 13545,
       8673, 3713, -1283, -6267, -11188, -15997, -20646, -25089,
       -29282, -33182, -36750, -39951, -42753, -45128, -47052, -48505,
       -49474, -49949, -49925, -49402, -48385, -46885, -44916, -42498,
       -39656, -36418, -32816, -28886, -24667, -20202, -15535, -10713,
       -5783, -796, 4199, 9152, 14013, 18735, 23269, 27571,
       31598, 35308, 38666, 41638, 44194, 46308, 47959, 49131,
       49812, 49996, 49680, 48867, 47566, 45790, 43557, 40888,
       37811, 34356, 30558, 26454, 22086, 17498, 12734, 7843,
       2874, -2123, -7100, -12006, -16791, -21409, -25813, -29959,
       -33806, -37315, -40451, -43183, -45483, -47329, -48702, -49589,
       -49980, -49872, -49265, -48166, -46586, -44540, -42050, -39139,
       -35837, -32177, -28195, -23932, -19430, -14734, -9890, -4947,
       44, 5036, 9977, 14818, 19512, 24010, 28269, 32245,
       35899, 39194, 42098, 44580, 46618, 48190, 49280, 49878,
       49977, 49577, 48682, 47301, 45446, 43138, 40399, 37256,
       33740, 29888, 25737, 21329, 16708, 11919, 7012, 2035,
       -2963, -7931, -12820, -17581, -22166, -26529, -30628, -34421,
       -37869, -40939, -43601, -45826, -47594, -48886, -49690, -49997,
       -49804, -49114, -47934, -46274, -44152, -41589, -38610, -35246,
       -31529, -27497, -23191, -18653, -13928, -9064, -4110, 885,
       5872, 10799, 15619, 20283, 24744, 28958, 32883, 36479,
       39710, 42545, 44955, 46915, 48407, 49415, 49930, 49945,
       49461, 48484, 47021, 45089, 42707, 39898, 36690, 33115,
       29210, 25013, 20565, 15913, 11101, 6179, 1194, -3802,
       -8760, -13631, -18365, -22916, -27238, -31288, -35025, -38413,
       -41416, -44006, -46156, -47845, -49055, -49776, -49999, -49723,
       -48950, -47688, -45949, -43751, -41116, -38070, -34644, -30872,
       -26791, -22443, -17870, -13119, -8236, -3272, 1726, 6706,
       11619, 16416, 21049, 25471, 29639, 33511, 37049, 40216 >>

\* One obstacle's step of the forEach in updateObstacles.
moveObstacle(o, spd) ==
    LET x == o.x - spd
        passed == o.passed \/ (x + o.width < playerX)
    IN  CASE o.type = "platform" ->
                LET y == o.y + o.moveDir * 2 * U
                IN  [o EXCEPT !.x = x, !.passed = passed, !.y = y,
                              !.moveDir = IF y > o.moveY + 30 * U
                                             \/ y < o.moveY - 30 * U
                                          THEN 0 - o.moveDir
                                          ELSE o.moveDir]
          [] o.type = "poop" ->
                [o EXCEPT !.x = x, !.passed = passed,
                          !.bounce = o.bounce + 1,
                          !.y = groundY - 35 * U + SinTab[o.bounce + 1]]
          [] OTHER -> [o EXCEPT !.x = x, !.passed = passed]

\* A filter that drops an obstacle once its left end is behind the player.
onScreenAhead(o) == o.x > playerX

\* The filter of updateObstacles.
onScreen(o) == o.x > removeX

updateObstacles(obs, spd) ==
    SelectSeq([i \in 1..Len(obs) |-> moveObstacle(obs[i], spd)], onScreen)

\* --------------------------------------------------------- checkCollisions

playerBox(p) ==
    [x |-> playerLeft + 5 * U, y |-> p.y + 5 * U,
     width |-> playerSize - 10 * U, height |-> playerSize - 10 * U]

isColliding(box1, box2) ==
    LET obstacleX == box2.x + box2.collisionOffset
        obstacleWidth == IF box2.collisionWidth # 0 THEN box2.collisionWidth
                         ELSE box2.width
    IN  /\ box1.x < obstacleX + obstacleWidth
        /\ box1.x + box1.width > obstacleX
        /\ box1.y < box2.y + box2.height
        /\ box1.y + box1.height > box2.y

\* A landing test that asks only for a player moving down.
isLandingOnTopAnyDepth(p, o) == p.velocity >= 0

isLandingOnTop(p, o) ==
    p.y + playerSize <= o.y + 15 * U /\ p.velocity >= 0

\* A collision test that spares a rising player (the landing exception of the
\* jumpable platforms, inverted, applied to every obstacle).
isLethalWhenFalling(box, p, o) == isColliding(box, o) /\ p.velocity >= 0

\* The obstacle makes the loop of checkCollisions call gameOver(); box is
\* playerBox(p).
isLethal(box, p, o) ==
    IF o.isJumpable
    THEN /\ p.onPlatform # o.id
         /\ isColliding(box, o)
         /\ ~isLandingOnTop(p, o)
    ELSE IF o.type = "platform"
    THEN /\ p.onPlatform # o.id
         /\ isColliding(box, o)
    ELSE isColliding(box, o)

\* Index of the obstacle at which the loop calls gameOver() and breaks, 0
\* when it runs to the end.
killerIndex(p, obs) ==
    LET box == playerBox(p)
    IN  IF \E i \in 1..Len(obs) : isLethal(box, p, obs[i])
        THEN CHOOSE i \in 1..Len(obs) :
                /\ isLethal(box, p, obs[i])
                /\ \A j \in 1..(i - 1) : ~isLethal(box, p, obs[j])
        ELSE 0

\* gameOver() calls one checkCollisions() makes.
gameOverCalls(p, obs) == IF killerIndex(p, obs) # 0 THEN 1 ELSE 0

\* --------------------------------------------------------------- difficulty

\* A speed that stays where startGame put it.
speedAfterNoRamp(spd, dt) == spd

speedAfter(spd, dt) == IF spd < maxSpeed THEN spd + speedIncrement * dt ELSE spd

scoreOf(distance) == distance \div M6

\* A level that climbs one step per frame.
levelAfterOneStep(level, sc) == IF sc \div levelEvery > level THEN level + 1 ELSE level

levelAfter(level, sc) == Max(level, sc \div levelEvery)

\* A spacing that widens when the level rises.
spacingAfterWider(spacing, level, sc) ==
    IF sc \div levelEvery > level THEN spacing + spacingStep ELSE spacing


spacingAfter(spacing, level, sc) ==
    IF sc \div levelEvery > level /\ spacing > minObstacleSpacing
    THEN Max(minObstacleSpacing, spacing - spacingStep)
    ELSE spacing

\* A test that forgets the distance travelled.
horizonNearAtStart(lastX, distance) == lastX < CanvasWidth * U

\* The test that makes update() call generateObstacle().
horizonNear(lastX, distance) == lastX - distance < canvas.width * U

\* --------------------------------------------------------------------- music

\* playMusic(): bgMusic.play() when musicEnabled; a rejected play() is logged.
playMusic(m) == IF m.enabled THEN [m EXCEPT !.playing = m.playable] ELSE m

\* stopMusic(): bgMusic.pause().
stopMusic(m) == [m EXCEPT !.playing = FALSE]

\* startGame(): if (this.musicEnabled) this.playMusic().
musicAfterStart(m) == IF m.enabled THEN playMusic(m) ELSE m

\* gameOver() ends with stopMusic(), which an exception of setItem skips.
musicAfterGameOver(m, calls, ok) == IF calls > 0 /\ ok THEN stopMusic(m) ELSE m

\* toggleMusic().
musicAfterToggle(m, st) ==
    LET t == [m EXCEPT !.enabled = ~m.enabled]
    IN  IF t.enabled
        THEN (IF st = "playing" THEN playMusic(t) ELSE t)
        ELSE stopMusic(t)

\* ------------------------------------------------------------------ gameOver

\* gameOver() whose body runs twice.
deathsAfterTwice(d, calls) == d + 2 * calls

deathsAfter(d, calls) == d + calls

\* A best score that is the score of the last run.
bestScoreAfterLast(best, sc, calls) == IF calls > 0 THEN sc ELSE best

bestScoreAfter(best, sc, calls) == IF calls > 0 /\ sc > best THEN sc ELSE best

\* gameOver() calls localStorage.setItem exactly when it has a new best.
writesBest(best, sc, calls) == calls > 0 /\ sc > best

\* The outcomes of that call: it returns (TRUE) or it throws (FALSE), as it
\* does when the quota is exceeded or storage is denied.
setItemOutcomes(best, sc, calls) ==
    IF writesBest(best, sc, calls) THEN BOOLEAN ELSE {TRUE}

\* The stored item after gameOver().
storedAfter(item, best, sc, calls, ok) ==
    IF writesBest(best, sc, calls) /\ ok THEN sc ELSE item

\* ------------------------------------------------------------ service worker

urlsToCache ==
    {"/", "/index.html", "/styles/main.css", "/js/game.js", "/manifest.json"}

\* A same-origin URL that is not in urlsToCache.
OtherUrl == "/favicon.ico"

\* The requests of the page that reach the fetch handler.
Requests == urlsToCache \cup {OtherUrl}

\* No fetch event answered yet.
NoResponse == [url |-> "", online |-> FALSE, body |-> "none"]

\* The worker when its script has been evaluated: the cache 'beanie-dash-v1'
\* of a first visit is empty.
WorkerStart ==
    [phase |-> "parsed", cache |-> {}, online |-> TRUE, response |-> NoResponse]

\* cache.addAll(urlsToCache) resolves when every URL was fetched with an ok
\* response (TRUE); it rejects and stores nothing when one of them was not
\* (FALSE), as it must when the network is unavailable.
addAllOutcomes(online) == IF online THEN BOOLEAN ELSE {FALSE}

cacheAfterAddAll(cache, ok) == IF ok THEN cache \cup urlsToCache ELSE cache

\* The promise handed to event.waitUntil ends in .catch, which logs and
\* returns: the install event completes whether addAll resolved or not.
phaseAfterInstall(ok) == "installed"

\* The body the fetch handler responds with: the cached response of the
\* request, else the network's response whatever its status, else (fetch
\* rejected) the cached '/index.html', which is undefined when that is not
\* cached either, and respondWith then fails with a network error.
fetchBody(cache, online, url) ==
    IF url \in cache THEN "cached"
    ELSE IF online THEN "network"
    ELSE IF "/index.html" \in cache THEN "fallback"
    ELSE "error"

\* The cache after the fetch handler: a response fetched with status 200 and
\* type 'basic' is put into it.
cacheAfterFetch(cache, online, served, url) ==
    IF url \notin cache /\ online /\ served THEN cache \cup {url} ELSE cache

\* ------------------------------------------------------------------- actions

\* parseInt(localStorage.getItem('beanieHighScore') || 0).  setItem stores the
\* decimal string of an integer score and parseInt reads the same integer
\* back, so an item is kept here as that integer.
parseBest(item) == IF item = NoItem THEN 0 ELSE item

\* The state the constructor and init() leave, given the stored item and
\* whether the browser can play the music.
StartOf(item, playable) ==
    /\ canvas = [width |-> CanvasWidth, height |-> CanvasHeight]
    /\ music = [enabled |-> TRUE, playing |-> FALSE, playable |-> playable]
    /\ state = "menu"
    /\ score = 0
    /\ deaths = 0
    /\ stored = item
    /\ bestScore = parseBest(item)
    /\ looping = TRUE
    /\ player = [y |-> groundY - playerSize, velocity |-> 0, grounded |-> FALSE,
                 jumping |-> FALSE, onPlatform |-> NoPlatform]
    /\ speed = initialSpeed
    /\ obstacles = <<>>
    /\ obstacleSpacing = initialSpacing
    /\ lastObstacleX = firstObstacleX
    /\ difficultyLevel = 0
    /\ distanceTraveled = 0
    /\ startScreenHidden = FALSE
    /\ gameOverHidden \in BOOLEAN
    /\ rng \in 0..(RandMod - 1)
    /\ nextId = 1
    /\ frame = 0
    /\ idleFrames = 0
    /\ runs = 0
    /\ worker = WorkerStart

\* A first visit: nothing is stored.
Init == StartOf(NoItem, TRUE)

\* A later visit: an earlier session left a best score.
InitStored == StartOf(PriorBest, TRUE)

\* The player fields that startGame() writes.  The obstacle objects of the run
\* before leave the array, so a reference the player still holds to one of
\* them equals no obstacle of the new run; grounded and jumping are not
\* written.
startPlayer(p) ==
    [p EXCEPT !.y = groundY - playerSize,
              !.velocity = 0,
              !.onPlatform = IF @ = NoPlatform THEN NoPlatform ELSE Detached]

\* startGame(), with the player as p once it has returned.
startGameWith(p) ==
    /\ runs < MaxRuns
    /\ state' = "playing"
    /\ score' = 0
    /\ distanceTraveled' = 0
    /\ speed' = initialSpeed
    /\ obstacleSpacing' = initialSpacing
    /\ difficultyLevel' = 0
    /\ obstacles' = generateInitialObstacles(firstObstacleX, initialSpacing)
    /\ lastObstacleX' = firstObstacleX + 4 * initialSpacing
    /\ player' = p
    /\ startScreenHidden' = TRUE
    /\ gameOverHidden' = TRUE
    /\ nextId' = 5
    /\ frame' = 0
    /\ idleFrames' = 0
    /\ runs' = runs + 1
    /\ music' = musicAfterStart(music)
    /\ UNCHANGED <<deaths, bestScore, rng, stored, looping, worker, canvas>>

\* startGame().
startGame == startGameWith(startPlayer(player))

\* A jump that leaves player.grounded set.
jumpStaysGrounded(p) == [p EXCEPT !.velocity = jumpPower, !.jumping = TRUE]

\* A jump that leaves the ground faster than jumpPower.
jumpOverpowered(p) ==
    [p EXCEPT !.velocity = jumpPower - gravity, !.jumping = TRUE, !.grounded = FALSE]

\* A jump of half the power.
jumpHalfPower(p) ==
    [p EXCEPT !.velocity = jumpPower \div 2, !.jumping = TRUE, !.grounded = FALSE]

\* The jump branch of handleJump().
jump(p) == [p EXCEPT !.velocity = jumpPower, !.jumping = TRUE, !.grounded = FALSE]

\* handleJump() that starts a game whenever it does not jump.
HandleJumpRestarts ==
    IF state = "playing" /\ player.grounded
    THEN /\ player' = jump(player)
         /\ UNCHANGED <<state, score, deaths, bestScore, speed, obstacles,
                        obstacleSpacing, lastObstacleX, difficultyLevel,
                        distanceTraveled, startScreenHidden, gameOverHidden,
                        rng, nextId, frame, idleFrames, runs, stored,
                        looping, worker, music, canvas>>
    ELSE startGame

\* handleJump() that jumps without testing player.grounded.
HandleJumpAirborne ==
    IF state = "menu" \/ state = "gameover"
    THEN startGame
    ELSE /\ player' = jump(player)
         /\ UNCHANGED <<state, score, deaths, bestScore, speed, obstacles,
                        obstacleSpacing, lastObstacleX, difficultyLevel,
                        distanceTraveled, startScreenHidden, gameOverHidden,
                        rng, nextId, frame, idleFrames, runs, stored,
                        looping, worker, music, canvas>>

\* handleJump(): Space, a tap or a click on the canvas.
HandleJump ==
    IF state = "menu" \/ state = "gameover"
    THEN startGame
    ELSE IF state = "playing" /\ player.grounded
    THEN /\ player' = jump(player)
         /\ UNCHANGED <<state, score, deaths, bestScore, speed, obstacles,
                        obstacleSpacing, lastObstacleX, difficultyLevel,
                        distanceTraveled, startScreenHidden, gameOverHidden,
                        rng, nextId, frame, idleFrames, runs, stored,
                        looping, worker, music, canvas>>
    ELSE UNCHANGED vars

\* What one call of handleJump() in state 'playing' does to the player.
jumpIfGrounded(p) == IF p.grounded THEN jump(p) ELSE p

\* A Space keydown.  The listener on window and the listener on document
\* both receive it and each calls handleJump(): the second call runs in the
\* state the first one left.
PressSpace ==
    IF state = "menu" \/ state = "gameover"
    THEN startGameWith(jumpIfGrounded(startPlayer(player)))
    ELSE /\ player' = jumpIfGrounded(jumpIfGrounded(player))
         /\ UNCHANGED <<state, score, deaths, bestScore, speed, obstacles,
                        obstacleSpacing, lastObstacleX, difficultyLevel,
                        distanceTraveled, startScreenHidden, gameOverHidden,
                        rng, nextId, frame, idleFrames, runs, stored,
                        looping, worker, music, canvas>>

\* showMenu() that also clears the score.
showMenuClearsScore ==
    /\ state' = "menu"
    /\ score' = 0
    /\ startScreenHidden' = FALSE
    /\ gameOverHidden' = TRUE
    /\ idleFrames' = 0
    /\ UNCHANGED <<deaths, bestScore, player, speed, obstacles,
                   obstacleSpacing, lastObstacleX, difficultyLevel,
                   distanceTraveled, rng, nextId, frame, runs, stored, looping, worker,
                   music, canvas>>

\* showMenu().
showMenu ==
    /\ state' = "menu"
    /\ startScreenHidden' = FALSE
    /\ gameOverHidden' = TRUE
    /\ idleFrames' = 0
    /\ UNCHANGED <<score, deaths, bestScore, player, speed, obstacles,
                   obstacleSpacing, lastObstacleX, difficultyLevel,
                   distanceTraveled, rng, nextId, frame, runs, stored, looping, worker,
                   music, canvas>>

\* A button can be clicked while the overlay that holds it is shown.
Clickable(hidden) == ~hidden

\* The click listeners of start-btn, retry-btn and menu-btn.
ClickStart == Clickable(startScreenHidden) /\ startGame
ClickRetry == Clickable(gameOverHidden) /\ startGame
ClickMenu == Clickable(gameOverHidden) /\ showMenu

\* Frames the model follows in the current run.
FrameLimit == IF runs <= 1 THEN MaxFrames ELSE MaxRetryFrames

\* The elapsed times a frame may report.
FrameTimes ==
    IF state = "playing" /\ frame # StallFrame THEN {FrameTime} ELSE DeltaTimes

\* update(deltaTime) in state 'playing'.  An exception that setItem throws in
\* gameOver() leaves gameOver(), checkCollisions(), update() and gameLoop()
\* at once: the state, the death count and the best score are already
\* written, the overlay is not shown, no obstacle is generated and
\* requestAnimationFrame is not called again.
update(dt) ==
    LET speed1 == speedAfter(speed, dt)
        distance1 == distanceTraveled + speed1 * dt
        score1 == scoreOf(distance1)
        level1 == levelAfter(difficultyLevel, score1)
        spacing1 == spacingAfter(obstacleSpacing, difficultyLevel, score1)
    IN  /\ speed1 * dt <= MaxMeters * M6 - distanceTraveled
        /\ \E player1 \in {updatePlayer(player, obstacles, speed1)},
              obstacles1 \in {updateObstacles(obstacles, speed1)},
              generated \in {generateObstacle(nextId, level1, lastObstacleX, spacing1, rng)} :
            \E calls \in {gameOverCalls(player1, obstacles1)} :
              \E ok \in setItemOutcomes(bestScore, score1, calls) :
                /\ speed' = speed1
                /\ distanceTraveled' = distance1
                /\ score' = score1
                /\ difficultyLevel' = level1
                /\ obstacleSpacing' = spacing1
                /\ player' = player1
                /\ state' = IF calls > 0 THEN "gameover" ELSE state
                /\ deaths' = deathsAfter(deaths, calls)
                /\ bestScore' = bestScoreAfter(bestScore, score1, calls)
                /\ stored' = storedAfter(stored, bestScore, score1, calls, ok)
                /\ gameOverHidden' = IF calls > 0 /\ ok THEN FALSE ELSE gameOverHidden
                /\ looping' = ok
                /\ IF ok /\ horizonNear(lastObstacleX, distance1)
                   THEN /\ obstacles' = Append(obstacles1, generated)
                        /\ lastObstacleX' = generated.x
                        /\ rng' = Advance(rng, RandomCalls(generated.type))
                        /\ nextId' = nextId + 1
                   ELSE /\ obstacles' = obstacles1
                        /\ UNCHANGED <<lastObstacleX, rng, nextId>>
                /\ frame' = frame + 1
                /\ idleFrames' = 0
                /\ music' = musicAfterGameOver(music, calls, ok)
                /\ UNCHANGED <<startScreenHidden, runs, worker, canvas>>

\* update() without its early return.
TickAlways == looping /\ \E dt \in FrameTimes : frame < FrameLimit /\ update(dt)

\* One turn of gameLoop(): update(deltaTime), which returns at once unless
\* the state is 'playing'.
Tick ==
    /\ looping
    /\ \E dt \in FrameTimes :
        IF state # "playing"
        THEN /\ idleFrames < MaxIdleFrames
             /\ idleFrames' = idleFrames + 1
             /\ UNCHANGED simulation
        ELSE frame < FrameLimit /\ update(dt)

Next ==
    \/ Tick
    \/ HandleJump
    \/ ClickStart
    \/ ClickRetry
    \/ ClickMenu

Spec == Init /\ [][Next]_vars

\* One turn of gameLoop() when any frame may report any of DeltaTimes.
TickAny ==
    /\ looping
    /\ \E dt \in DeltaTimes :
        IF state # "playing"
        THEN /\ idleFrames < MaxIdleFrames
             /\ idleFrames' = idleFrames + 1
             /\ UNCHANGED simulation
        ELSE frame < MaxBurstFrames /\ update(dt)

NextAny ==
    \/ TickAny
    \/ HandleJump
    \/ ClickStart
    \/ ClickRetry
    \/ ClickMenu

\* Short runs under arbitrary frame times.
AnySpec == Init /\ [][NextAny]_vars

\* The runs of Spec in a browser that holds an earlier best score.
StoredSpec == InitStored /\ [][Next]_vars

\* One turn of gameLoop() on a display that delivers every frame after
\* FrameTime.
RegularTick ==
    /\ looping
    /\ IF state # "playing"
       THEN /\ idleFrames < MaxIdleFrames
            /\ idleFrames' = idleFrames + 1
            /\ UNCHANGED simulation
       ELSE frame < FrameLimit /\ update(FrameTime)

NoJumpNext ==
    \/ ClickStart
    \/ RegularTick

\* A run on regular frames in which the player never gives an input.
NoJumpSpec == Init /\ [][NoJumpNext]_vars

\* The click listener of music-toggle: toggleMusic().
ToggleMusic ==
    /\ music' = musicAfterToggle(music, state)
    /\ UNCHANGED <<state, score, deaths, bestScore, player, speed, obstacles,
                   obstacleSpacing, lastObstacleX, difficultyLevel,
                   distanceTraveled, startScreenHidden, gameOverHidden,
                   rng, nextId, frame, idleFrames, runs, stored,
                   looping, worker, canvas>>

\* A first visit in a browser that may or may not let the music play.
InitMusic == \E playable \in BOOLEAN : StartOf(NoItem, playable)

MusicNext ==
    \/ RegularTick
    \/ ClickStart
    \/ ClickRetry
    \/ ClickMenu
    \/ ToggleMusic

\* Sessions of starts, game-overs, returns to the menu and music toggles.
MusicSpec == InitMusic /\ [][MusicNext]_vars

\* Sizes the game container takes when the window is resized.
ContainerSizes ==
    {[width |-> CanvasWidth, height |-> CanvasHeight],
     [width |-> CanvasWidth, height |-> CanvasHeight + 100],
     [width |-> CanvasWidth - 200, height |-> CanvasHeight - 100]}

\* The resize listener of window: resizeCanvas().  The player and the
\* obstacles keep the y they have.
Resize ==
    /\ frame <= MaxResizeFrame
    /\ \E size \in ContainerSizes \ {canvas} : canvas' = size
    /\ UNCHANGED <<state, score, deaths, bestScore, player, speed, obstacles,
                   obstacleSpacing, lastObstacleX, difficultyLevel,
                   distanceTraveled, startScreenHidden, gameOverHidden,
                   rng, nextId, frame, idleFrames, runs, stored,
                   looping, worker, music>>

ResizeNext ==
    \/ ClickStart
    \/ RegularTick
    \/ Resize

\* A run without jumps in a window that is resized in its first frames.
ResizeSpec == Init /\ [][ResizeNext]_vars

KeyNext ==
    \/ RegularTick
    \/ PressSpace

\* A session played with the Space key alone, on regular frames.
KeySpec == Init /\ [][KeyNext]_vars

\* The player's inputs in the opening: a jump is given while the next
\* obstacle of the opening (the first spike, then the first platform) is
\* between JumpNear and JumpFar from the left edge of the canvas, at any
\* frame of that stretch.
JumpNear == 155 * U
JumpFar == 215 * U

\* An obstacle the player jumps for in the opening.
OpeningTarget(o) == o.id \in {1, 2}

\* The target is inside the stretch.
InJumpWindow ==
    \E i \in 1..Len(obstacles) :
        /\ OpeningTarget(obstacles[i])
        /\ obstacles[i].x >= JumpNear
        /\ obstacles[i].x <= JumpFar

\* The coming frame takes the target out of the stretch.
LastJumpFrame ==
    \E i \in 1..Len(obstacles) :
        /\ OpeningTarget(obstacles[i])
        /\ obstacles[i].x >= JumpNear
        /\ obstacles[i].x - speedAfter(speed, FrameTime) < JumpNear

\* The player stands on the first platform of the opening.
OnFirstPlatform == player.grounded /\ player.onPlatform = 2

\* Space, a tap or a click, given inside the stretch.
OpeningJump ==
    /\ state = "playing"
    /\ player.grounded
    /\ InJumpWindow
    /\ HandleJump

\* The first platform has come RideEnd px past the left edge of the canvas.
RideEnd == 20 * U
FirstPlatformGone ==
    \E i \in 1..Len(obstacles) :
        obstacles[i].id = 2 /\ obstacles[i].x <= 0 - RideEnd

\* A frame that does not let the stretch go by unused; the run is followed
\* until the first platform has come RideEnd px past the left edge.
OpeningTick ==
    /\ ~(state = "playing" /\ FirstPlatformGone)
    /\ ~(state = "playing" /\ player.grounded /\ LastJumpFrame)
    /\ RegularTick

OpeningNext ==
    \/ ClickStart
    \/ OpeningJump
    \/ OpeningTick

\* A run on regular frames in which the player jumps for the first spike
\* and for the first platform.
OpeningSpec == Init /\ [][OpeningNext]_vars

\* The elapsed time of two regular frames.
DoubleTime == 2 * FrameTime

\* The speed, the player and the obstacles as one call of update(dt) leaves
\* them when it does not end the run: the speed ramp, updatePlayer and
\* updateObstacles, in that order.
motionAfter(m, dt) ==
    LET spd == speedAfter(m.speed, dt)
    IN  [speed |-> spd,
         player |-> updatePlayer(m.player, m.obstacles, spd),
         obstacles |-> updateObstacles(m.obstacles, spd)]

\* ----------------------------------------------------- service worker events

\* The variables of the game, which no event of the worker touches.
game == <<state, score, deaths, bestScore, player, speed, obstacles,
          obstacleSpacing, lastObstacleX, difficultyLevel, distanceTraveled,
          startScreenHidden, gameOverHidden, rng, nextId, frame, idleFrames,
          runs, stored, looping, music, canvas>>

\* The install event.
Install ==
    /\ worker.phase = "parsed"
    /\ \E ok \in addAllOutcomes(worker.online) :
          worker' = [worker EXCEPT !.phase = phaseAfterInstall(ok),
                                   !.cache = cacheAfterAddAll(@, ok)]
    /\ UNCHANGED game

\* The activate event: caches of another name are deleted, this one is kept.
Activate ==
    /\ worker.phase = "installed"
    /\ worker' = [worker EXCEPT !.phase = "activated"]
    /\ UNCHANGED game

\* The device loses or regains the network.
Connectivity ==
    /\ worker' = [worker EXCEPT !.online = ~@]
    /\ UNCHANGED game

\* A fetch event of the controlled page.
Fetch ==
    /\ worker.phase = "activated"
    /\ \E url \in Requests, served \in BOOLEAN :
          worker' = [worker EXCEPT
                        !.response = [url |-> url, online |-> worker.online,
                                      body |-> fetchBody(worker.cache, worker.online, url)],
                        !.cache = cacheAfterFetch(@, worker.online, served, url)]
    /\ UNCHANGED game

WorkerNext ==
    \/ Install
    \/ Activate
    \/ Connectivity
    \/ Fetch

\* The service worker next to a game that is left in its menu.
WorkerSpec == Init /\ [][WorkerNext]_vars

\* ------------------------------------------------------------------ claims

AllowedTransitions ==
    { <<"menu", "playing">>, <<"playing", "gameover">>,
      <<"gameover", "playing">>, <<"gameover", "menu">> }

C2_JumpOnlyGrounded ==
    [][ (state = "playing" /\ frame' = frame /\ runs' = runs) =>
            /\ player.grounded
            /\ player'.velocity = jumpPower
            /\ ~player'.grounded
            /\ player'.y = player.y
            /\ UNCHANGED <<state, score, deaths, bestScore, speed, obstacles,
                           obstacleSpacing, lastObstacleX, difficultyLevel,
                           distanceTraveled>>
      ]_vars

\* The player right after a jump took effect.
C2_Witness ==
    state = "playing" /\ player.velocity = jumpPower /\ ~player.grounded

\* C3: right after startGame() the run fields are reset and the obstacle set
\* is the fixed opening sequence.
C3_FreshRun ==
    (state = "playing" /\ frame = 0) =>
        /\ distanceTraveled = 0
        /\ score = 0
        /\ speed = 35000
        /\ obstacleSpacing = 500 * U
        /\ difficultyLevel = 0
        /\ Len(obstacles) = 4
        /\ [i \in 1..4 |-> obstacles[i].type]
              = <<"spike", "jump_platform", "spike", "jump_platform">>
        /\ [i \in 1..4 |-> obstacles[i].x]
              = <<1300 * U, 1800 * U, 2300 * U, 2800 * U>>
        /\ \A i \in {2, 4} : /\ obstacles[i].width = 120 * U
                             /\ obstacles[i].y = groundY - 80 * U

\* A run entered from gameover, before its first frame.
C3_Witness == state = "playing" /\ frame = 0 /\ runs = 2 /\ deaths = 1

\* C4: deaths never decreases, grows by at most 1 in a step, and grows by
\* exactly 1 on each step from 'playing' to 'gameover' and on no other.
C4_OneDeathPerTick ==
    [][ /\ deaths' \in {deaths, deaths + 1}
        /\ (deaths' = deaths + 1) <=> (state = "playing" /\ state' = "gameover")
      ]_vars

\* A second run that still carries the death of the first.
C4_Witness == state = "playing" /\ runs = 2 /\ deaths = 1 /\ frame > 0

\* C5: while the state stays 'menu' or 'gameover' the player, the obstacles
\* and the run fields do not change.
C5_FrozenOutsidePlay ==
    [][ (state # "playing" /\ state' = state) =>
            UNCHANGED <<player, obstacles, distanceTraveled, score, speed,
                        obstacleSpacing, difficultyLevel>>
      ]_vars

\* update() was called after the game was lost with the player in the air.
C5_Witness ==
    state = "gameover" /\ idleFrames > 0 /\ ~player.grounded /\ obstacles # <<>>

\* The player's hitbox (inset 5 px) meets the obstacle's collision rectangle,
\* which for a spike is x+5 .. x+25.
HitboxOverlaps(o) ==
    LET ox == IF o.type = "spike" THEN o.x + 5 * U ELSE o.x
        ow == IF o.type = "spike" THEN 20 * U ELSE o.width
    IN  /\ 90 * U < ox + ow
        /\ 110 * U > ox
        /\ player.y + 5 * U < o.y + o.height
        /\ player.y + 25 * U > o.y

AlwaysLethal == {"spike", "block", "saw", "poop"}

\* C6: in state 'playing' the hitbox overlaps no spike, block, saw or poop.
C6_NoLethalOverlap ==
    state = "playing" =>
        \A i \in 1..Len(obstacles) :
            obstacles[i].type \in AlwaysLethal => ~HitboxOverlaps(obstacles[i])

\* The game was lost to a spike while the player was rising.
C6_Witness ==
    /\ state = "gameover"
    /\ player.velocity < 0
    /\ \E i \in 1..Len(obstacles) :
          obstacles[i].type = "spike" /\ HitboxOverlaps(obstacles[i])

\* C10: a grounded player has velocity 0.
C10_GroundedAtRest == player.grounded => player.velocity = 0

\* The player standing on a platform during a run.
C10_Witness ==
    state = "playing" /\ player.grounded /\ player.onPlatform > 0

\* A frame of the running game.
PlayingTick == state = "playing" /\ frame' = frame + 1

\* The player's velocity and bottom edge during the coming frame, after
\* gravity and integration, and its bottom edge before.
TickVelocity ==
    IF player.grounded THEN player.velocity
    ELSE Min(player.velocity + 8000, 20 * U)
TickBottom == player.y + TickVelocity + 30 * U
PrevBottom == player.y + 30 * U

\* During the coming frame the player's bottom edge crosses the top of o
\* from above.
CrossesTop(o) == PrevBottom <= o.y /\ o.y <= TickBottom

\* The player is horizontally aligned with o (its span is 85 .. 115).
Aligned(o) == 115 * U > o.x /\ 85 * U < o.x + o.width

\* After the frame the hitbox overlaps o, an obstacle of the array as the
\* frame leaves it.
HitboxOverlapsAfter(o) ==
    LET ox == IF o.type = "spike" THEN o.x + 5 * U ELSE o.x
        ow == IF o.type = "spike" THEN 20 * U ELSE o.width
    IN  /\ 90 * U < ox + ow
        /\ 110 * U > ox
        /\ player'.y + 5 * U < o.y + o.height
        /\ player'.y + 25 * U > o.y

\* C7: a player that falls onto the top of a moving platform it is aligned
\* with ends the frame grounded on it, and the game goes on.
C7_MovingPlatformLanding ==
    [][ PlayingTick =>
          \A i \in 1..Len(obstacles) :
            LET o == obstacles[i]
            IN  ( /\ o.type = "platform"
                  /\ TickVelocity >= 0
                  /\ Aligned(o)
                  /\ CrossesTop(o) )
                => /\ player'.grounded
                   /\ player'.onPlatform = o.id
                   /\ state' = "playing"
      ]_vars

\* C8: a player with 0 <= velocity <= 20 whose bottom edge crosses the top
\* of a jumpable platform it is aligned with ends the frame standing on it,
\* and if the game is lost in that frame it is lost to another obstacle.
C8_LandingDeterminism ==
    [][ PlayingTick =>
          \A i \in 1..Len(obstacles) :
            LET o == obstacles[i]
            IN  ( /\ o.type = "jump_platform"
                  /\ TickVelocity >= 0 /\ TickVelocity <= 20 * U
                  /\ Aligned(o)
                  /\ CrossesTop(o) )
                => /\ player'.y = o.y - 30 * U
                   /\ player'.velocity = 0
                   /\ player'.grounded
                   /\ player'.onPlatform = o.id
                   /\ state' = "gameover" =>
                         \E j \in 1..Len(obstacles') :
                            /\ obstacles'[j].id # o.id
                            /\ HitboxOverlapsAfter(obstacles'[j])
      ]_vars

\* A falling player, a platform under it, and a coming frame that takes the
\* player's bottom edge across the platform's top.
C8_Witness ==
    /\ state = "playing"
    /\ frame < FrameLimit
    /\ ~player.grounded
    /\ TickVelocity > 5 * U
    /\ \E i \in 1..Len(obstacles) :
          /\ obstacles[i].type = "jump_platform"
          /\ Aligned(obstacles[i])
          /\ CrossesTop(obstacles[i])
          /\ TickBottom > obstacles[i].y

\* C9 as stated: when the hitbox comes to overlap a jumpable platform the
\* player does not stand on, and the bottom edge did not cross its top from
\* above in this frame, the frame ends in gameover.  (A jump platform keeps
\* its y, so its top is the same before and after the frame.)
C9_SideHitLethal ==
    [][ PlayingTick =>
          \A j \in 1..Len(obstacles') :
            LET o == obstacles'[j]
            IN  ( /\ o.type = "jump_platform"
                  /\ HitboxOverlapsAfter(o)
                  /\ player'.onPlatform # o.id
                  /\ ~CrossesTop(o) )
                => state' = "gameover"
      ]_vars

\* C9 amended: the same, for a player that is rising or whose bottom edge is
\* more than 15 px below the platform's top.
C9_SideHitLethalBelowBand ==
    [][ PlayingTick =>
          \A j \in 1..Len(obstacles') :
            LET o == obstacles'[j]
            IN  ( /\ o.type = "jump_platform"
                  /\ HitboxOverlapsAfter(o)
                  /\ player'.onPlatform # o.id
                  /\ ~CrossesTop(o)
                  /\ \/ player'.velocity < 0
                     \/ player'.y + 30 * U > o.y + 15 * U )
                => state' = "gameover"
      ]_vars

\* The game was lost to the underside of a platform.
C9_Witness ==
    /\ state = "gameover"
    /\ player.velocity < 0
    /\ \E i \in 1..Len(obstacles) :
          /\ obstacles[i].type = "jump_platform"
          /\ player.onPlatform # obstacles[i].id
          /\ HitboxOverlaps(obstacles[i])

C12_TierFromDistance ==
    /\ score = distanceTraveled \div 1000000
    /\ difficultyLevel = score \div 40

\* A run that a long frame took to level 11 and that then climbed further,
\* frame by frame.
C12_Witness == state = "playing" /\ difficultyLevel >= 13 /\ score % 40 > 0

\* C13: obstacleSpacing stays within 250 .. 500, never grows while the run
\* goes on, and grows only by startGame setting it to 500.
C13_SpacingShrinks ==
    [][ /\ obstacleSpacing' >= 250 * U /\ obstacleSpacing' <= 500 * U
        /\ runs' = runs => obstacleSpacing' <= obstacleSpacing
        /\ obstacleSpacing' > obstacleSpacing =>
              /\ runs' = runs + 1
              /\ obstacleSpacing' = 500 * U
      ]_vars

\* A second run, not yet played, that follows a run whose spacing had shrunk
\* (it was lost at 40 m or more).
C13_Witness ==
    /\ state = "playing" /\ runs = 2 /\ frame = 0
    /\ bestScore >= 40
    /\ obstacleSpacing = 500 * U

\* The types the stated thresholds unlock at a level.
Unlocked(level) ==
    {"spike", "jump_platform"}
        \cup (IF level > 3 THEN {"block"} ELSE {})
        \cup (IF level > 6 THEN {"platform"} ELSE {})
        \cup (IF level > 8 THEN {"saw"} ELSE {})
        \cup (IF level > 10 THEN {"poop"} ELSE {})

C15_SpeedCapped ==
    [][ /\ speed' <= 12 * U
        /\ runs' = runs => speed' >= speed
        /\ runs' # runs => speed' = 35000
      ]_vars

\* C16: a frame of a running game never lowers the score, every startGame
\* sets it to 0, and nothing else lowers it.
C16_ScoreMonotone ==
    [][ /\ PlayingTick => score' >= score
        /\ runs' # runs => score' = 0
        /\ score' < score => runs' = runs + 1 /\ state' = "playing"
      ]_vars

\* A second run that has scored, but less than the run before it.
C16_Witness ==
    state = "playing" /\ runs = 2 /\ score > 0 /\ score < bestScore

\* C17 as stated: bestScore never decreases; it changes only in a frame that
\* ends the game with a score above it, and becomes that score; the same
\* value is then the stored item; and in gameover the stored item equals
\* bestScore, which is at least the score of the run.
C17_BestScorePersisted ==
    [][ /\ bestScore' >= bestScore
        /\ bestScore' # bestScore =>
              /\ state = "playing" /\ state' = "gameover"
              /\ score' > bestScore
              /\ bestScore' = score'
              /\ stored' = bestScore'
        /\ state' = "gameover" =>
              /\ bestScore' >= score'
              /\ stored' = bestScore'
      ]_vars

\* C17 amended: the same, with the stored item equal to bestScore whenever
\* the call of setItem returned (the frame loop is then still armed).
C17_BestScorePersistedIfWritten ==
    [][ /\ bestScore' >= bestScore
        /\ bestScore' # bestScore =>
              /\ state = "playing" /\ state' = "gameover"
              /\ score' > bestScore
              /\ bestScore' = score'
              /\ looping' => stored' = bestScore'
        /\ state' = "gameover" =>
              /\ bestScore' >= score'
              /\ looping' => stored' = bestScore'
      ]_vars

\* A run was lost below the best score of an earlier session, which stands.
C17_Witness ==
    /\ state = "gameover"
    /\ deaths = 1
    /\ score < PriorBest
    /\ bestScore = PriorBest
    /\ stored = PriorBest

\* C18: a failing write of the best score is swallowed: the game-over
\* overlay is shown whenever the state is gameover, and the frame loop stays
\* armed.
C18_WriteFailureSwallowed ==
    /\ looping
    /\ state = "gameover" => ~gameOverHidden

\* C19: an obstacle that a frame generates is placed obstacleSpacing to the
\* right of where the obstacle placed before it now is.
C19_PlacedOneSpacingApart ==
    [][ (PlayingTick /\ nextId' = nextId + 1 /\ Len(obstacles') >= 2) =>
            obstacles'[Len(obstacles')].x
                = obstacles'[Len(obstacles') - 1].x + obstacleSpacing'
      ]_vars

C21_FirstSpikeBy120 ==
    /\ state = "playing" => frame < 120
    /\ state = "gameover" => deaths = 1 /\ frame <= 120

\* C21 amended: a run of 16 ms frames without a jump is lost on frame 274,
\* at 192 m, to the first spike of the opening, with one death and a best
\* score raised to the score of the run.
C21_FirstSpikeAt274 ==
    /\ state = "playing" => frame < 274
    /\ state = "gameover" =>
          /\ frame = 274
          /\ deaths = 1
          /\ score = 192
          /\ bestScore = 192
          /\ obstacles[1].id = 1
          /\ obstacles[1].type = "spike"
          /\ HitboxOverlaps(obstacles[1])

\* The run was lost, and update() has been called since.
C21_Witness ==
    state = "gameover" /\ frame = 274 /\ deaths = 1 /\ idleFrames > 0

\* C22: in a run whose jumps are given while the first spike, and then the
\* first platform, is 155 to 215 px from the left edge, whichever frame of
\* that stretch each jump takes, no death occurs and the player comes to
\* stand on the first platform before the platform's left end has passed
\* the left edge of the canvas, and rides it from then on.
C22_OpeningSurvivable ==
    /\ deaths = 0
    /\ state # "gameover"
    /\ \A i \in 1..Len(obstacles) :
          (obstacles[i].id = 2 /\ obstacles[i].x < 0) =>
              /\ OnFirstPlatform
              /\ player.y + playerSize = obstacles[i].y

\* The player stands on the first platform, 80 px above the ground, and
\* nobody has died.
C22_Witness ==
    /\ state = "playing"
    /\ deaths = 0
    /\ OnFirstPlatform
    /\ player.y = groundY - 80 * U - playerSize
    /\ \E i \in 1..Len(obstacles) :
          obstacles[i].id = 2 /\ obstacles[i].type = "jump_platform"

\* C23: player.onPlatform is null or refers to an obstacle of the active
\* set that the player is horizontally aligned with.
C23_OnPlatformIsLive ==
    player.onPlatform # NoPlatform =>
        \E i \in 1..Len(obstacles) :
            /\ obstacles[i].id = player.onPlatform
            /\ Aligned(obstacles[i])

\* C24: from any state of a run, one frame of 32 ms leaves the player's y
\* and velocity and the obstacles' x where two frames of 16 ms leave them.
C24_SplitIndependent ==
    state = "playing" =>
        LET m == [speed |-> speed, player |-> player, obstacles |-> obstacles]
            one == motionAfter(m, DoubleTime)
            two == motionAfter(motionAfter(m, FrameTime), FrameTime)
        IN  /\ one.player.y = two.player.y
            /\ one.player.velocity = two.player.velocity
            /\ [i \in 1..Len(one.obstacles) |-> one.obstacles[i].x]
                  = [i \in 1..Len(two.obstacles) |-> two.obstacles[i].x]

\* C25: while the score of a run is below 80 every obstacle of the active
\* set is a spike.
C25_OnlySpikesEarly ==
    (state = "playing" /\ score < 80) =>
        \A i \in 1..Len(obstacles) : obstacles[i].type = "spike"

\* C26: right after startGame() the first obstacle is at x = 800.
C26_FirstObstacleAt800 ==
    (state = "playing" /\ frame = 0) =>
        /\ obstacles # <<>>
        /\ obstacles[1].x = 800 * U

\* C27: obstacleSpacing is max(250, 500 - 5 * difficultyLevel).
C27_SpacingPerLevel ==
    obstacleSpacing = Max(250 * U, 500 * U - 5 * U * difficultyLevel)

\* C30: the obstacle set at the moment a frame ends the game, which is the
\* scrolled and filtered set that checkCollisions() inspected, is the set the
\* frame leaves, and it stays the same until the next run starts.
C30_NoSpawnAfterDeath ==
    [][ /\ (PlayingTick /\ state' = "gameover") =>
              obstacles' = updateObstacles(obstacles, speed')
        /\ (state = "gameover" /\ runs' = runs) => obstacles' = obstacles
      ]_vars

\* C28: once the install event has completed every URL of urlsToCache is in
\* the cache, and a fetch of one of them without network is answered with
\* its cached response.
C28_OfflineAfterInstall ==
    /\ worker.phase # "parsed" => urlsToCache \subseteq worker.cache
    /\ ( /\ worker.response.url \in urlsToCache
         /\ ~worker.response.online )
       => worker.response.body = "cached"

C31_OnPlatformOnlyGrounded ==
    player.onPlatform # NoPlatform => player.grounded

\* C32: after a frame of a run every active obstacle has x > -100; the
\* obstacles that the frame takes out of the array (they are its first ones)
\* are those whose x, moved left by the speed, is -100 or less, and each has
\* its right end behind the player's left edge; the others stay, in order.
C32_RemovedWhenBehind ==
    [][ PlayingTick =>
          LET kept == Len(obstacles') - (nextId' - nextId)
              gone == Len(obstacles) - kept
          IN  /\ gone >= 0
              /\ \A j \in 1..Len(obstacles') : obstacles'[j].x > 0 - 100 * U
              /\ \A i \in 1..Len(obstacles) :
                    IF i <= gone
                    THEN /\ obstacles[i].x - speed' <= 0 - 100 * U
                         /\ obstacles[i].x - speed' + obstacles[i].width < 85 * U
                    ELSE /\ obstacles[i].x - speed' > 0 - 100 * U
                         /\ obstacles'[i - gone].id = obstacles[i].id
      ]_vars

\* The first spike of the opening has left the active set, and the run goes
\* on.
C32_Witness ==
    /\ state = "playing"
    /\ obstacles # <<>>
    /\ obstacles[1].id > 1

\* C33: a Space keydown, which reaches handleJump() twice, leaves the game in
\* the state one call of handleJump() would leave it in; pressed in state
\* 'gameover' it starts a run with the player at rest.
C33_SpaceTwiceAsOnce ==
    [][ PressSpace =>
          /\ HandleJump
          /\ (state = "gameover" => state' = "playing" /\ player'.velocity = 0)
      ]_vars

\* C34: every call of startGame() leaves the player as the first start of the
\* session leaves it (at rest on the ground line, not grounded, not jumping,
\* on no platform) and the run fields at their starting values.
C34_EveryRunStartsAlike ==
    [][ runs' # runs =>
          /\ player' = [y |-> groundY - playerSize, velocity |-> 0,
                        grounded |-> FALSE, jumping |-> FALSE,
                        onPlatform |-> NoPlatform]
          /\ score' = 0
          /\ distanceTraveled' = 0
          /\ speed' = initialSpeed
          /\ obstacleSpacing' = initialSpacing
          /\ difficultyLevel' = 0
          /\ Len(obstacles') = 4
      ]_vars

\* C35: the array never holds more obstacles than fit, at the minimum
\* spacing, between the x where obstacles are removed and the right edge of
\* the canvas, plus the four obstacles of the opening and the one a frame
\* generates.
C35_ObstaclesBounded ==
    LET K == (CanvasWidth * U - removeX) \div minObstacleSpacing + 5
    IN  Len(obstacles) <= K

\* C36: the background music plays only while music is enabled and a run is
\* being played.
C36_MusicOnlyWhilePlaying ==
    music.playing => music.enabled /\ state = "playing"

\* C37: a frame of a run never ends with the player grounded, on no
\* platform, and its bottom edge off the ground line, whatever resize came
\* before the frame.
C37_RestingAfterResize ==
    [][ PlayingTick =>
          (player'.grounded /\ player'.onPlatform = NoPlatform
             => player'.y + playerSize = groundY)
      ]_vars

====
